---- MODULE Spec2Model ----
(***************************************************************************)
(* Retrieval core of the RAG backend: the chunking strategies of           *)
(* app/rag/chunking.py and the hybrid search pipeline of                   *)
(* app/rag/hybrid_search.py.                                               *)
(*                                                                         *)
(* Texts are sequences of one-character strings.  Scores are integers in   *)
(* units of 1/ScoreUnit, so that the weighted scores 0.7 * similarity and  *)
(* 0.3 * sum(c / (1 + 0.1 c)) are exact.                                   *)
(***************************************************************************)
EXTENDS Integers, Sequences, FiniteSets, TLC

VARIABLES
    \* ---- chunking (chunking.py) ----
    strategy,       \* name given to ChunkingFactory.create
    text,           \* the text argument of chunk()
    metadata,       \* the metadata argument of chunk()
    chunk_size,     \* FixedSizeChunking.chunk_size
    overlap,        \* FixedSizeChunking.overlap
    sentences_per_chunk,  \* SentenceChunking.sentences_per_chunk
    overlap_sentences,    \* SentenceChunking.overlap_sentences
    max_chunk_size, \* SemanticChunking.max_chunk_size
    start,          \* local `start` of FixedSizeChunking.chunk
    chunk_index,    \* local `chunk_index` of the running chunk()
    chunks,         \* local `chunks` of the running chunk()
    cpc,            \* position of the chunk() call
    \* ---- hybrid search (hybrid_search.py) ----
    reranker,       \* HybridSearch.reranker: TRUE when the model loaded
    top_k,          \* argument of HybridSearch.search
    query,          \* argument of HybridSearch.search / KeywordSearch.search
    query_terms,    \* number of terms _normalize_query yields for the query
    keyword_documents,  \* argument of HybridSearch.search
    index_reply,    \* what vector_store.search_similar answered
    rerank_reply,   \* what the cross-encoder did when it was asked
    faults,         \* the stages of the call that raised
    semantic_results,   \* what SemanticSearch.search returned
    keyword_results,    \* what KeywordSearch.search returned
    fused,          \* combined_results as _combine_results returned it
    combined_results,   \* local of HybridSearch.search when the call ends
    returned,       \* the list HybridSearch.search returned
    outcome,        \* how the call ended: "none", "returned", "raised"
    trail,          \* what happened in each stage of the call
    spc,            \* position of the search() call
    \* ---- two search() calls in flight on one HybridSearch ----
    calls,          \* per call: its position, arguments and the list it returned
    heap,           \* the SearchResult objects created so far, by identity
    \* ---- similarity of two texts (embeddings.py) ----
    text1,          \* argument of EmbeddingsGenerator.get_similarity
    text2,          \* argument of EmbeddingsGenerator.get_similarity
    embeddings,     \* what generate_embeddings_batch returned
    similarity,     \* what get_similarity returned
    epc             \* position of the get_similarity() call

chunkVars == <<strategy, text, metadata, chunk_size, overlap, sentences_per_chunk,
               overlap_sentences, max_chunk_size, start, chunk_index, chunks, cpc>>

searchVars == <<reranker, top_k, query, query_terms, keyword_documents, index_reply,
                rerank_reply, faults, semantic_results, fused, keyword_results,
                combined_results, returned, outcome, trail, spc, calls, heap>>

embedVars == <<text1, text2, embeddings, similarity, epc>>

vars == <<strategy, text, metadata, chunk_size, overlap, sentences_per_chunk,
          overlap_sentences, max_chunk_size, start, chunk_index, chunks, cpc,
          reranker, top_k, query, query_terms, keyword_documents, index_reply,
          rerank_reply,
          faults, semantic_results, keyword_results, fused, combined_results, returned,
          outcome, trail, spc, calls, heap, text1, text2, embeddings, similarity, epc>>

----------------------------------------------------------------------------
(* Bounds *)

\* largest chunk_size tried; the window must be longer than 10 characters
\* for a period to lie beyond 80% of it and before its last character
MaxChunkSize == 11

\* number of free characters after the optional long word of a text
MaxTail == 4

\* longest text given to the sentence based strategies
MaxSentLen == 6

\* largest sentences_per_chunk tried
MaxSentences == 2

\* largest max_chunk_size tried
MaxSemSize == 3

\* iterations of the fixed-size loop that are followed: one more than the
\* longest text has characters
MaxChunks == MaxChunkSize + MaxTail - 1

\* longest keyword_documents list
MaxDocs == 2

\* longest answer of the vector index
MaxHits == 2


----------------------------------------------------------------------------
(* Helpers: Python string operations *)

Max2(a, b) == IF a >= b THEN a ELSE b
Min2(a, b) == IF a <= b THEN a ELSE b

\* index normalisation of a slice bound: negative counts from the end, then clamp
SliceIndex(i, n) == IF i < 0 THEN Max2(i + n, 0) ELSE Min2(i, n)

\* s[lo:hi]
PySlice(s, lo, hi) ==
    LET l == SliceIndex(lo, Len(s))
        h == SliceIndex(hi, Len(s))
    IN  IF l < h THEN SubSeq(s, l + 1, h) ELSE <<>>

\* s.rfind(c): the 0-based index of the last occurrence, -1 when there is none
RFind(s, c) ==
    LET hits == {i \in 1..Len(s) : s[i] = c}
    IN  IF hits = {} THEN -1
        ELSE (CHOOSE i \in hits : \A j \in hits : j <= i) - 1

IsSpace(c) == c = " "

\* s.strip()
Strip(s) ==
    LET solid == {i \in 1..Len(s) : ~IsSpace(s[i])}
    IN  IF solid = {} THEN <<>>
        ELSE SubSeq(s, CHOOSE i \in solid : \A j \in solid : i <= j,
                       CHOOSE i \in solid : \A j \in solid : j <= i)

\* c.lower() for the letters used here
Lower(c) ==
    CASE c = "A" -> "a"
      [] c = "B" -> "b"
      [] c = "Q" -> "q"
      [] OTHER -> c

\* s.lower()
LowerAll(s) == [i \in 1..Len(s) |-> Lower(s[i])]

\* \w of the re module: letters (digits and "_" are not used here)
IsWordChar(c) == c \in {"a", "b", "d", "e", "q", "u", "é", "A", "B", "Q"}

\* " ".join(words)
RECURSIVE JoinWords(_)
JoinWords(words) ==
    IF words = <<>> THEN <<>>
    ELSE IF Len(words) = 1 THEN words[1]
    ELSE words[1] \o <<" ">> \o JoinWords(Tail(words))

\* s.split(): the maximal runs of non-blank characters from position i on,
\* cur being the run read so far
RECURSIVE SplitWords(_, _, _)
SplitWords(s, i, cur) ==
    IF i > Len(s) THEN (IF cur = <<>> THEN <<>> ELSE <<cur>>)
    ELSE IF IsSpace(s[i])
         THEN (IF cur = <<>> THEN <<>> ELSE <<cur>>) \o SplitWords(s, i + 1, <<>>)
         ELSE SplitWords(s, i + 1, Append(cur, s[i]))

\* s.count(t) for a non-empty t: occurrences that do not overlap, from the
\* left, counted from position i on
RECURSIVE CountFrom(_, _, _)
CountFrom(s, t, i) ==
    IF i + Len(t) - 1 > Len(s) THEN 0
    ELSE IF SubSeq(s, i, i + Len(t) - 1) = t
         THEN 1 + CountFrom(s, t, i + Len(t))
         ELSE CountFrom(s, t, i + 1)

\* the keys in the other order, {..., **metadata}: the caller's value wins
MergeMetadataCallerWins(m, own) ==
    [k \in (DOMAIN m) \cup (DOMAIN own) |-> IF k \in DOMAIN m THEN m[k] ELSE own[k]]

\* {**metadata, <own keys>}: the keys written last win
MergeMetadata(m, own) ==
    [k \in (DOMAIN m) \cup (DOMAIN own) |-> IF k \in DOMAIN own THEN own[k] ELSE m[k]]

----------------------------------------------------------------------------
(* Inputs of the chunking strategies *)

Chars == {"a", ".", " "}

\* a run of letters long enough to reach the last fifth of the largest window
LongWord == [i \in 1..(MaxChunkSize - 2) |-> "a"]

Strings(n) == UNION {[1..k -> Chars] : k \in 0..n}

\* texts given to the fixed-size strategy: short ones, and ones after a long word
FixedTexts == Strings(MaxTail) \cup {LongWord \o t : t \in Strings(MaxTail)}

\* texts given to the sentence based strategies
SentTexts == Strings(MaxSentLen)

ChunkSizes == {1, MaxChunkSize}
Overlaps == {0, 1, MaxChunkSize - 1, MaxChunkSize + 1}

\* chunk sizes of which 80% is a whole number, each with the texts that have a
\* period exactly there in their first window, and the overlaps used with them
WholeFifths == {n \in 2..MaxChunkSize : (n * 8) % 10 = 0}
BoundaryTexts(n) ==
    {[i \in 1..((n * 8) \div 10) |-> "a"] \o <<".">> \o t : t \in Strings(2)}
BoundaryOverlaps == {0, 1}

\* caller metadata: one plain mapping, one that uses the keys the strategies write
Metadatas ==
    { [source |-> "doc"],
      [source |-> "doc", start_char |-> 99, sentence_start |-> 99, type |-> "caller"] }

----------------------------------------------------------------------------
(* chunking.py *)

Chunk(content, index, meta) ==
    [content |-> content, chunk_index |-> index, metadata |-> meta]

\* ChunkingFactory.STRATEGIES
STRATEGIES == {"fixed", "sentence", "semantic", "hybrid"}

\* names ChunkingFactory.create does not know; the lookup is case sensitive
UnknownNames == {"unknown", "Fixed", ""}

\* the classes ChunkingFactory.STRATEGIES maps the names to
StrategyClass ==
    [n \in STRATEGIES |->
        CASE n = "fixed" -> "FixedSizeChunking"
          [] n = "sentence" -> "SentenceChunking"
          [] n = "semantic" -> "SemanticChunking"
          [] n = "hybrid" -> "HybridChunking"]

\* a factory that falls back to the default strategy for a name it does not know
CreateWithDefault(name) ==
    IF name \notin STRATEGIES
    THEN [raised |-> FALSE, class |-> "HybridChunking"]
    ELSE [raised |-> FALSE, class |-> StrategyClass[name]]

\* ChunkingFactory.create: ValueError for an unknown name, otherwise an
\* instance of the class registered under the name
Create(name) ==
    IF name \notin STRATEGIES
    THEN [raised |-> TRUE, class |-> "none"]
    ELSE [raised |-> FALSE, class |-> StrategyClass[name]]

ClassOf(name) == Create(name).class

\* a hybrid strategy that hands the text to its sentence strategy
ChunkerOfSentenceFirst(class) ==
    IF class = "HybridChunking" THEN "SentenceChunking" ELSE class

\* the class whose chunk() does the work: HybridChunking.chunk returns
\* self.fixed_strategy.chunk(text, metadata)
ChunkerOf(class) ==
    IF class = "HybridChunking" THEN "FixedSizeChunking" ELSE class

\* the strategies whose chunk() runs FixedSizeChunking.chunk
RunsFixed(s) == ChunkerOf(ClassOf(s)) = "FixedSizeChunking"

\* the strategies whose chunk() runs SentenceChunking.chunk
RunsSentence(s) == ChunkerOf(ClassOf(s)) = "SentenceChunking"

\* the strategies whose chunk() runs SemanticChunking.chunk
RunsSemantic(s) == ChunkerOf(ClassOf(s)) = "SemanticChunking"

\* `last_period > self.chunk_size * 0.8`
NearEnd(last_period, size) == last_period * 10 > size * 8

\* one pass of the body of `while start < len(text)`: the chunk appended and
\* the window end the next start is computed from
FixedWindow(t, st, size, idx, meta) ==
    LET end0 == st + size
        text0 == PySlice(t, st, end0)
        last_period == RFind(text0, ".")
        shorten == end0 < Len(t) /\ NearEnd(last_period, size)
        end == IF shorten THEN st + last_period + 1 ELSE end0
        chunk_text == IF shorten THEN PySlice(t, st, end) ELSE text0
    IN  [end |-> end,
         shortened |-> shorten,
         chunk |-> Chunk(Strip(chunk_text), idx,
                         MergeMetadata(meta, [start_char |-> st, end_char |-> end,
                                              chunk_size |-> Len(chunk_text)]))]

\* a sign slip in the advance: the next window starts after the overlap
NextStartGap(end, ov) == end + ov

\* `start = end - self.overlap`
NextStart(end, ov) == end - ov

\* the increment is forgotten
NextIndexStuck(idx) == idx

\* `chunk_index += 1`
NextIndex(idx) == idx + 1

\* FixedSizeChunking.chunk as a whole, from window start st and index idx on:
\* the chunks of the first `fuel` iterations of the while loop
RECURSIVE FixedRun(_, _, _, _, _, _, _)
FixedRun(t, size, ov, meta, st, idx, fuel) ==
    IF fuel = 0 \/ ~(st < Len(t)) THEN <<>>
    ELSE LET w == FixedWindow(t, st, size, idx, meta)
         IN  <<w.chunk>> \o FixedRun(t, size, ov, meta, NextStart(w.end, ov),
                                      NextIndex(idx), fuel - 1)

IsTerminal(c) == c \in {".", "!", "?"}

\* re.split(r"(?<=[.!?])\s+", text): the pieces between the runs of whitespace
\* that directly follow a terminal mark
RECURSIVE SplitFrom(_, _, _, _)
SplitFrom(t, i, cur, inSep) ==
    IF i > Len(t) THEN <<cur>>
    ELSE IF inSep /\ IsSpace(t[i]) THEN SplitFrom(t, i + 1, cur, TRUE)
    ELSE IF IsSpace(t[i]) /\ i > 1 /\ IsTerminal(t[i - 1])
         THEN <<cur>> \o SplitFrom(t, i + 1, <<>>, TRUE)
    ELSE SplitFrom(t, i + 1, Append(cur, t[i]), FALSE)

ReSplit(t) == SplitFrom(t, 1, <<>>, FALSE)

\* [s.strip() for s in sentences if s.strip()]
RECURSIVE StripAll(_)
StripAll(ps) ==
    IF ps = <<>> THEN <<>>
    ELSE IF Strip(Head(ps)) = <<>> THEN StripAll(Tail(ps))
    ELSE <<Strip(Head(ps))>> \o StripAll(Tail(ps))

Sentences(t) == StripAll(ReSplit(t))

\* " ".join(parts)
RECURSIVE Join(_)
Join(parts) ==
    IF parts = <<>> THEN <<>>
    ELSE IF Len(parts) = 1 THEN Head(parts)
    ELSE Head(parts) \o <<" ">> \o Join(Tail(parts))

\* windows as long as the step: consecutive chunks share no sentence
RECURSIVE SentenceLoopNoOverlap(_, _, _, _, _, _)
SentenceLoopNoOverlap(sents, i, step, per, idx, meta) ==
    IF i >= Len(sents) THEN <<>>
    ELSE LET chunk_sentences == PySlice(sents, i, i + step)
             chunk_text == Join(chunk_sentences)
         IN  IF Strip(chunk_text) # <<>>
             THEN <<Chunk(chunk_text, idx,
                          MergeMetadata(meta, [sentence_start |-> i,
                                               sentence_end |-> i + Len(chunk_sentences),
                                               num_sentences |-> Len(chunk_sentences)]))>>
                  \o SentenceLoopNoOverlap(sents, i + step, step, per, NextIndex(idx), meta)
             ELSE SentenceLoopNoOverlap(sents, i + step, step, per, idx, meta)

\* the body of `for i in range(0, len(sentences), step)` from position i on
RECURSIVE SentenceLoop(_, _, _, _, _, _)
SentenceLoop(sents, i, step, per, idx, meta) ==
    IF i >= Len(sents) THEN <<>>
    ELSE LET chunk_sentences == PySlice(sents, i, i + per)
             chunk_text == Join(chunk_sentences)
         IN  IF Strip(chunk_text) # <<>>
             THEN <<Chunk(chunk_text, idx,
                          MergeMetadata(meta, [sentence_start |-> i,
                                               sentence_end |-> i + Len(chunk_sentences),
                                               num_sentences |-> Len(chunk_sentences)]))>>
                  \o SentenceLoop(sents, i + step, step, per, NextIndex(idx), meta)
             ELSE SentenceLoop(sents, i + step, step, per, idx, meta)

\* SentenceChunking.chunk for a positive step; range() with a negative step is empty
SentenceChunks(t, per, ov, meta) ==
    IF per - ov < 0 THEN <<>>
    ELSE SentenceLoop(Sentences(t), 0, per - ov, per, 0, meta)

\* the joining space is left out of the running size
RECURSIVE SemanticLoopNoSpace(_, _, _, _, _, _)
SemanticLoopNoSpace(sents, current_chunk, current_size, limit, idx, meta) ==
    IF sents = <<>>
    THEN IF current_chunk # <<>>
         THEN <<Chunk(Join(current_chunk), idx, MergeMetadata(meta, [type |-> "semantic"]))>>
         ELSE <<>>
    ELSE LET sentence == Head(sents)
             sentence_size == Len(sentence)
         IN  IF current_size + sentence_size > limit /\ current_chunk # <<>>
             THEN <<Chunk(Join(current_chunk), idx,
                          MergeMetadata(meta, [type |-> "semantic"]))>>
                  \o SemanticLoopNoSpace(Tail(sents), <<sentence>>, sentence_size,
                                         limit, NextIndex(idx), meta)
             ELSE SemanticLoopNoSpace(Tail(sents), Append(current_chunk, sentence),
                                      current_size + sentence_size, limit, idx, meta)

\* the body of `for sentence in sentences` of SemanticChunking.chunk, then the
\* last chunk
RECURSIVE SemanticLoop(_, _, _, _, _, _)
SemanticLoop(sents, current_chunk, current_size, limit, idx, meta) ==
    IF sents = <<>>
    THEN IF current_chunk # <<>>
         THEN <<Chunk(Join(current_chunk), idx, MergeMetadata(meta, [type |-> "semantic"]))>>
         ELSE <<>>
    ELSE LET sentence == Head(sents)
             sentence_size == Len(sentence)
         IN  IF current_size + sentence_size > limit /\ current_chunk # <<>>
             THEN <<Chunk(Join(current_chunk), idx,
                          MergeMetadata(meta, [type |-> "semantic"]))>>
                  \o SemanticLoop(Tail(sents), <<sentence>>, sentence_size + 1,
                                  limit, NextIndex(idx), meta)
             ELSE SemanticLoop(Tail(sents), Append(current_chunk, sentence),
                               current_size + sentence_size + 1, limit, idx, meta)

SemanticChunks(t, limit, meta) == SemanticLoop(Sentences(t), <<>>, 0, limit, 0, meta)

----------------------------------------------------------------------------
(* The chunk() call as a state machine *)

\* the two callers of a shared HybridSearch
CallIds == {1, 2}

\* a call that has not started
IdleCall ==
    [pc |-> "idle", reranker_seen |-> FALSE, top_k |-> 0, query_terms |-> 0, keyword_documents |-> <<>>,
     index_reply |-> [kind |-> "none", hits |-> <<>>],
     rerank_reply |-> [asked |-> FALSE, fail_at |-> 0, scores |-> <<>>],
     overlapped |-> FALSE, objects |-> {}, returned |-> <<>>]

\* neither caller has started a call
NoCalls ==
    /\ calls = [c \in CallIds |-> IdleCall]
    /\ heap = <<>>

\* the value 0.0 of a similarity.  A similarity is not-a-number, or the
\* number of the given sign whose square is sq_num / sq_den
Zero == [nan |-> FALSE, sign |-> 0, sq_num |-> 0, sq_den |-> 1]

\* no get_similarity() call is in progress
EmbedIdle ==
    /\ text1 = <<>>
    /\ text2 = <<>>
    /\ embeddings = <<>>
    /\ similarity = Zero
    /\ epc = "idle"

\* no search call is in progress
SearchIdle ==
    /\ NoCalls
    /\ reranker = FALSE
    /\ top_k = 0
    /\ query = <<>>
    /\ query_terms = 0
    /\ keyword_documents = <<>>
    /\ index_reply = [kind |-> "none", hits |-> <<>>]
    /\ rerank_reply = [asked |-> FALSE, fail_at |-> 0, scores |-> <<>>]
    /\ faults = [keyword |-> FALSE, combine |-> FALSE]
    /\ semantic_results = <<>>
    /\ keyword_results = <<>>
    /\ fused = <<>>
    /\ combined_results = <<>>
    /\ returned = <<>>
    /\ outcome = "none"
    /\ trail = <<>>
    /\ spc = "idle"

\* ChunkingFactory.create is about to be called with a name and the
\* arguments of the constructor; the text and metadata are those chunk() will
\* be given
InitChunk ==
    /\ strategy \in STRATEGIES \cup UnknownNames
    /\ metadata \in Metadatas
    /\ IF ClassOf(strategy) \in {"FixedSizeChunking", "HybridChunking"}
       THEN \/ /\ text \in FixedTexts
               /\ chunk_size \in ChunkSizes
               /\ overlap \in Overlaps
            \/ /\ chunk_size \in WholeFifths
               /\ text \in BoundaryTexts(chunk_size)
               /\ overlap \in BoundaryOverlaps
       ELSE /\ text \in IF Create(strategy).raised THEN {<<"a">>} ELSE SentTexts
            /\ chunk_size = 1024
            /\ overlap = 128
    /\ IF ClassOf(strategy) = "SentenceChunking"
       THEN /\ sentences_per_chunk \in 1..MaxSentences
            /\ overlap_sentences \in -1..MaxSentences
       ELSE /\ sentences_per_chunk = 5
            /\ overlap_sentences = 1
    /\ IF ClassOf(strategy) = "SemanticChunking"
       THEN max_chunk_size \in 1..MaxSemSize
       ELSE max_chunk_size = 1024
    /\ start = 0
    /\ chunk_index = 0
    /\ chunks = <<>>
    /\ cpc = "create"
    /\ SearchIdle
    /\ EmbedIdle

\* ChunkingFactory.create: it raises ValueError, or it constructs the strategy
\* and chunk() is entered
CreateStrategy ==
    /\ cpc = "create"
    /\ cpc' = IF Create(strategy).raised THEN "raised_unknown" ELSE "running"
    /\ UNCHANGED <<strategy, text, metadata, chunk_size, overlap, sentences_per_chunk,
                   overlap_sentences, max_chunk_size, start, chunk_index, chunks>>
    /\ UNCHANGED searchVars
    /\ UNCHANGED embedVars

\* FixedSizeChunking.chunk: one iteration of the while loop
FixedStep ==
    /\ cpc = "running"
    /\ RunsFixed(strategy)
    /\ start < Len(text)
    /\ Len(chunks) < MaxChunks
    /\ LET w == FixedWindow(text, start, chunk_size, chunk_index, metadata)
       IN  /\ chunks' = Append(chunks, w.chunk)
           /\ start' = NextStart(w.end, overlap)
           /\ chunk_index' = NextIndex(chunk_index)
    /\ UNCHANGED <<strategy, text, metadata, chunk_size, overlap, sentences_per_chunk,
                   overlap_sentences, max_chunk_size, cpc>>
    /\ UNCHANGED searchVars
    /\ UNCHANGED embedVars

\* FixedSizeChunking.chunk: the loop condition fails and the list is returned
\* (HybridChunking.chunk returns the same list)
FixedReturn ==
    /\ cpc = "running"
    /\ RunsFixed(strategy)
    /\ ~(start < Len(text))
    /\ cpc' = "done"
    /\ UNCHANGED <<strategy, text, metadata, chunk_size, overlap, sentences_per_chunk,
                   overlap_sentences, max_chunk_size, start, chunk_index, chunks>>
    /\ UNCHANGED searchVars
    /\ UNCHANGED embedVars

\* SentenceChunking.chunk; range() raises ValueError for a step of 0
SentenceChunk ==
    /\ cpc = "running"
    /\ RunsSentence(strategy)
    /\ IF sentences_per_chunk - overlap_sentences = 0
       THEN /\ cpc' = "raised"
            /\ UNCHANGED <<chunks, chunk_index>>
       ELSE /\ chunks' = SentenceChunks(text, sentences_per_chunk, overlap_sentences,
                                        metadata)
            /\ chunk_index' = Len(chunks')
            /\ cpc' = "done"
    /\ UNCHANGED <<strategy, text, metadata, chunk_size, overlap, sentences_per_chunk,
                   overlap_sentences, max_chunk_size, start>>
    /\ UNCHANGED searchVars
    /\ UNCHANGED embedVars

\* SemanticChunking.chunk
SemanticChunk ==
    /\ cpc = "running"
    /\ RunsSemantic(strategy)
    /\ chunks' = SemanticChunks(text, max_chunk_size, metadata)
    /\ chunk_index' = IF chunks' = <<>> THEN 0 ELSE Len(chunks') - 1
    /\ cpc' = "done"
    /\ UNCHANGED <<strategy, text, metadata, chunk_size, overlap, sentences_per_chunk,
                   overlap_sentences, max_chunk_size, start>>
    /\ UNCHANGED searchVars
    /\ UNCHANGED embedVars

NextChunk ==
    \/ CreateStrategy
    \/ FixedStep
    \/ FixedReturn
    \/ SentenceChunk
    \/ SemanticChunk

SpecChunk == InitChunk /\ [][NextChunk]_vars

----------------------------------------------------------------------------
(* Inputs of the search *)

\* (chunk_id, document_id) pairs of the corpus
Keys == {<<1, 1>>, <<1, 2>>}

\* occurrence counts of one query term in one document
Counts == {0, 1, 2}

\* similarities the index reports, in tenths; the index applies threshold=0.7
Sims == {9}

\* values of top_k
TopKs == {1, 2}

\* numbers of terms left of the query after _normalize_query
TermCounts == {0, 1}

SeqsUpTo(S, n) == UNION {[1..k -> S] : k \in 0..n}

\* words queries are made of: two plain terms, one with a capital, a stopword
\* with a capital and punctuation, a short stopword, a term after punctuation
QueryWords ==
    { <<"a", "a", "a">>, <<"A", "a", "b">>, <<"Q", "u", "e", ",">>, <<"d", "e">>,
      <<"a", ",", "a", "b", "a">> }

\* queries given to KeywordSearch.search alone: up to two words
KeywordQueries == {JoinWords(ws) : ws \in SeqsUpTo(QueryWords, 2)}

\* queries given to HybridSearch.search
SearchQueries ==
    {JoinWords(ws) : ws \in { <<>>, << <<"d", "e">> >>, << <<"Q", "u", "e", ",">> >>,
                              << <<"Q", "u", "e", ",">>, <<"d", "e">> >>,
                              << <<"d", "e">>, <<"a", ",", "a", "b", "a">> >> }}

\* contents of the documents given to KeywordSearch.search alone
ContentTexts ==
    { <<>>, <<"a", "a", "a">>, <<"a", "a", "a", "a", "a", "a">>,
      <<"A", "A", "B", " ", "a", "b", "a">>, <<"q", "u", "e", " ", "d", "e">> }

\* a document of keyword_documents with its text
TextDocs == {[id |-> k[1], document_id |-> k[2], content |-> c] :
                k \in Keys, c \in ContentTexts}

\* settings.hybrid_search_weight_semantic and _keyword, in tenths
WeightSemantic == 7
WeightKeyword == 3

RECURSIVE Product(_)
Product(S) == IF S = {} THEN 1 ELSE LET x == CHOOSE y \in S : TRUE
                                    IN  x * Product(S \ {x})

\* common denominator of the term scores c / (1 + 0.1 c) = 10 c / (10 + c)
KwDen == Product({10 + c : c \in Counts \ {0}})

\* one score unit is 1 / ScoreUnit
ScoreUnit == 100 * KwDen

\* scores the cross-encoder gives
RerankScores == {0, ScoreUnit}

\* a document of keyword_documents: its ids and, for its content, the number
\* of occurrences of each query term in it
Docs(n) == {[id |-> k[1], document_id |-> k[2], counts |-> c] :
                k \in Keys, c \in [1..n -> Counts]}

\* an entry of the index's answer
Hits == {[id |-> k[1], document_id |-> k[2], similarity |-> x] :
            k \in Keys, x \in Sims}

\* ways a lookup fails: a runtime error, resource exhaustion (MemoryError),
\* a configuration error; all three are Python Exceptions
LookupErrors == {"runtime_error", "memory_error", "config_error"}

----------------------------------------------------------------------------
(* hybrid_search.py *)

SearchResult(chunk_id, document_id, score, search_type) ==
    [chunk_id |-> chunk_id, document_id |-> document_id, score |-> score,
     search_type |-> search_type]

\* key = (result.chunk_id, result.document_id)
KeyOf(r) == <<r.chunk_id, r.document_id>>

\* a handler that names the connection errors only
SemanticCatchesRuntimeOnly(kind) == kind = "runtime_error"

\* `except Exception` of SemanticSearch.search: the kinds of error it absorbs
SemanticCatches(kind) == kind \in LookupErrors

\* SemanticSearch.search: the results, or the error that leaves the method
SemanticSearch(reply) ==
    IF reply.kind = "hits"
    THEN [raised |-> FALSE,
          results |-> [i \in 1..Len(reply.hits) |->
                          SearchResult(reply.hits[i].id, reply.hits[i].document_id,
                                       reply.hits[i].similarity * WeightSemantic * KwDen,
                                       "semantic")]]
    ELSE IF SemanticCatches(reply.kind)
    THEN [raised |-> FALSE, results |-> <<>>]
    ELSE [raised |-> TRUE, results |-> <<>>]

\* `stopwords` of _normalize_query
Stopwords ==
    { <<"o">>, <<"a">>, <<"d", "e">>, <<"e", "m">>, <<"p", "a", "r", "a">>,
      <<"c", "o", "m">>, <<"p", "o", "r">>, <<"e">>, <<"o", "u">>, <<"é">>,
      <<"q", "u", "e">> }

\* re.sub(r"[^\w\s]", " ", query.lower())
Unpunctuate(q) ==
    [i \in 1..Len(q) |->
        IF IsWordChar(q[i]) \/ IsSpace(q[i]) THEN Lower(q[i]) ELSE " "]

\* a filter on the length only: stopwords of three letters or more pass
RECURSIVE KeepTermsByLength(_)
KeepTermsByLength(terms) ==
    IF terms = <<>> THEN <<>>
    ELSE IF Len(Head(terms)) > 2
         THEN <<Head(terms)>> \o KeepTermsByLength(Tail(terms))
         ELSE KeepTermsByLength(Tail(terms))

\* [t for t in terms if t not in stopwords and len(t) > 2]
RECURSIVE KeepTerms(_)
KeepTerms(terms) ==
    IF terms = <<>> THEN <<>>
    ELSE IF Head(terms) \notin Stopwords /\ Len(Head(terms)) > 2
         THEN <<Head(terms)>> \o KeepTerms(Tail(terms))
         ELSE KeepTerms(Tail(terms))

\* KeywordSearch._normalize_query
NormalizeQuery(q) == KeepTerms(SplitWords(Unpunctuate(q), 1, <<>>))

\* `content_lower.count(term)` for each term of the query
TermCountsIn(terms, content) ==
    [t \in 1..Len(terms) |-> CountFrom(LowerAll(content), terms[t], 1)]

\* a term score without the saturating denominator
TermScoreLinear(count) == count * KwDen

\* count / (1 + count * 0.1), in units of 1 / KwDen
TermScore(count) == IF count > 0 THEN (10 * count * KwDen) \div (10 + count) ELSE 0

\* KeywordSearch._calculate_score, in units of 1 / KwDen
RECURSIVE CalculateScore(_)
CalculateScore(counts) ==
    IF counts = <<>> THEN 0
    ELSE TermScore(Head(counts)) + CalculateScore(Tail(counts))

\* score * self.weight, in score units
KeywordScore(counts) == CalculateScore(counts) * WeightKeyword * 10

\* the loop `for doc in documents` of KeywordSearch.search
RECURSIVE KeywordMatches(_)
KeywordMatches(docs) ==
    IF docs = <<>> THEN <<>>
    ELSE LET doc == Head(docs)
         IN  IF CalculateScore(doc.counts) > 0
             THEN <<SearchResult(doc.id, doc.document_id, KeywordScore(doc.counts),
                                 "keyword")>> \o KeywordMatches(Tail(docs))
             ELSE KeywordMatches(Tail(docs))

\* reverse=True is forgotten: ascending
RECURSIVE InsertAsc(_, _)
InsertAsc(sorted, r) ==
    IF sorted = <<>> THEN <<r>>
    ELSE IF Head(sorted).score <= r.score
         THEN <<Head(sorted)>> \o InsertAsc(Tail(sorted), r)
         ELSE <<r>> \o sorted

\* a descending sort that puts a later element before its equals
RECURSIVE InsertDescUnstable(_, _)
InsertDescUnstable(sorted, r) ==
    IF sorted = <<>> THEN <<r>>
    ELSE IF Head(sorted).score > r.score
         THEN <<Head(sorted)>> \o InsertDescUnstable(Tail(sorted), r)
         ELSE <<r>> \o sorted

\* list.sort(key=score, reverse=True): descending and stable
RECURSIVE InsertDesc(_, _)
InsertDesc(sorted, r) ==
    IF sorted = <<>> THEN <<r>>
    ELSE IF Head(sorted).score >= r.score
         THEN <<Head(sorted)>> \o InsertDesc(Tail(sorted), r)
         ELSE <<r>> \o sorted

RECURSIVE SortDesc(_)
SortDesc(rs) ==
    IF rs = <<>> THEN <<>>
    ELSE InsertDesc(SortDesc(SubSeq(rs, 1, Len(rs) - 1)), rs[Len(rs)])

\* KeywordSearch.search; a raise inside it is caught and gives []
KeywordSearch(n_terms, docs, k, fails) ==
    IF fails THEN <<>>
    ELSE IF n_terms = 0 THEN <<>>
    ELSE PySlice(SortDesc(KeywordMatches(docs)), 0, k)

\* KeywordSearch.search on a query and documents given as text
KeywordSearchText(q, docs, k, fails) ==
    LET terms == NormalizeQuery(q)
    IN  KeywordSearch(Len(terms),
                      [i \in 1..Len(docs) |->
                          [id |-> docs[i].id, document_id |-> docs[i].document_id,
                           counts |-> TermCountsIn(terms, docs[i].content)]],
                      k, fails)

\* `=` in place of `+=`: the later score replaces the earlier one
CombineOneOverwrite(combined, result) ==
    IF \E i \in 1..Len(combined) : KeyOf(combined[i]) = KeyOf(result)
    THEN LET i == CHOOSE j \in 1..Len(combined) : KeyOf(combined[j]) = KeyOf(result)
         IN  [combined EXCEPT ![i].score = result.score]
    ELSE Append(combined, result)

\* a list in place of the dictionary: every result is kept
CombineOneAppend(combined, result) == Append(combined, result)

\* one pass of a loop of _combine_results: `combined[key] = result` or
\* `combined[key].score += result.score`
CombineOne(combined, result) ==
    IF \E i \in 1..Len(combined) : KeyOf(combined[i]) = KeyOf(result)
    THEN LET i == CHOOSE j \in 1..Len(combined) : KeyOf(combined[j]) = KeyOf(result)
         IN  [combined EXCEPT ![i].score = @ + result.score]
    ELSE Append(combined, result)

RECURSIVE CombineAll(_, _)
CombineAll(combined, results) ==
    IF results = <<>> THEN combined
    ELSE CombineAll(CombineOne(combined, Head(results)), Tail(results))

\* HybridSearch._combine_results: list(combined.values()), in insertion order
CombineResults(semantic, keyword) == CombineAll(CombineAll(<<>>, semantic), keyword)

\* a write-back with `+=`: the model's score is added to the fused score
RerankResultsAdd(results, reply) ==
    [i \in 1..Len(results) |->
        IF i < reply.fail_at \/ reply.fail_at > Len(results)
        THEN [results[i] EXCEPT !.score = @ + reply.scores[i]]
        ELSE results[i]]

\* HybridSearch._rerank_results.  reply.fail_at = 0: predict raises;
\* reply.fail_at = j in 1..len: writing back the j-th score raises;
\* otherwise every score is written.
RerankResults(results, reply) ==
    [i \in 1..Len(results) |->
        IF i < reply.fail_at \/ reply.fail_at > Len(results)
        THEN [results[i] EXCEPT !.score = reply.scores[i]]
        ELSE results[i]]

\* a call that reranks whenever there are candidates
RerankRunsWithoutModel(has_reranker, combined) == combined # <<>>

\* `if self.reranker and combined_results`
RerankRuns(has_reranker, combined) == has_reranker /\ combined # <<>>

\* combined_results[:top_k]
Truncate(results, k) == PySlice(results, 0, k)

\* a handler that names the lookup errors only
HybridCatchesLookupOnly(kind) == kind \in LookupErrors

\* `except Exception` of HybridSearch.search: the kinds of error it absorbs
HybridCatches(kind) == kind \in LookupErrors \cup {"type_error"}

\* a search that sorts and cuts the fused list first and reranks what is left
StagesRerankLast(k, raised_in_combine, reranked) ==
    <<[stage |-> "semantic", k |-> 2 * k], [stage |-> "keyword", k |-> 2 * k],
      [stage |-> "combine", k |-> 0]>>
    \o (IF raised_in_combine THEN <<>>
        ELSE <<[stage |-> "sort", k |-> 0], [stage |-> "truncate", k |-> k]>>
             \o (IF reranked THEN <<[stage |-> "rerank", k |-> 0]>> ELSE <<>>))

\* the stages HybridSearch.search went through, in order
Stages(k, raised_in_combine, reranked) ==
    <<[stage |-> "semantic", k |-> 2 * k], [stage |-> "keyword", k |-> 2 * k],
      [stage |-> "combine", k |-> 0]>>
    \o (IF raised_in_combine THEN <<>>
        ELSE (IF reranked THEN <<[stage |-> "rerank", k |-> 0]>> ELSE <<>>)
             \o <<[stage |-> "sort", k |-> 0], [stage |-> "truncate", k |-> k]>>)

\* HybridSearch.search from the answer of the index to its return.
\* f.keyword: KeywordSearch.search raises inside; f.combine: _combine_results
\* raises TypeError (an id that cannot be hashed).
HybridSearchRun(has_reranker, n_terms, docs, k, reply, f, rr) ==
    LET sem == SemanticSearch(reply)
        kw == KeywordSearch(n_terms, docs, 2 * k, f.keyword)
        error == IF sem.raised THEN reply.kind
                 ELSE IF f.combine THEN "type_error" ELSE "none"
        comb == IF error = "none" THEN CombineResults(sem.results, kw) ELSE <<>>
        reranked == error = "none" /\ RerankRuns(has_reranker, comb)
        ranked == IF reranked THEN RerankResults(comb, rr) ELSE comb
        sorted == SortDesc(ranked)
    IN  [semantic |-> sem.results,
         keyword |-> IF sem.raised THEN <<>> ELSE kw,
         fused |-> comb,
         reranked |-> reranked,
         combined |-> IF error = "none" THEN sorted ELSE <<>>,
         returned |-> IF error = "none" THEN Truncate(sorted, k) ELSE <<>>,
         outcome |-> IF error = "none" \/ HybridCatches(error) THEN "returned"
                     ELSE "raised",
         stages |-> IF sem.raised THEN <<[stage |-> "semantic", k |-> 2 * k]>>
                    ELSE Stages(k, f.combine, reranked)]

----------------------------------------------------------------------------
(* The search() call as a state machine *)

\* no chunk() call is in progress
ChunkIdle ==
    /\ strategy = "hybrid"
    /\ text = <<>>
    /\ metadata = [source |-> "doc"]
    /\ chunk_size = 1024
    /\ overlap = 128
    /\ sentences_per_chunk = 5
    /\ overlap_sentences = 1
    /\ max_chunk_size = 1024
    /\ start = 0
    /\ chunk_index = 0
    /\ chunks = <<>>
    /\ cpc = "idle"

\* HybridSearch.__init__: the reranker loads or the failure is logged
InitSearch ==
    /\ NoCalls
    /\ reranker \in BOOLEAN
    /\ top_k = 0
    /\ query = <<>>
    /\ query_terms = 0
    /\ keyword_documents = <<>>
    /\ index_reply = [kind |-> "none", hits |-> <<>>]
    /\ rerank_reply = [asked |-> FALSE, fail_at |-> 0, scores |-> <<>>]
    /\ faults = [keyword |-> FALSE, combine |-> FALSE]
    /\ semantic_results = <<>>
    /\ keyword_results = <<>>
    /\ fused = <<>>
    /\ combined_results = <<>>
    /\ returned = <<>>
    /\ outcome = "none"
    /\ trail = <<>>
    /\ spc = "idle"
    /\ ChunkIdle
    /\ EmbedIdle

\* answers of vector_store.search_similar asked for k results
IndexReplies(k) ==
    {[kind |-> "hits", hits |-> h] : h \in SeqsUpTo(Hits, Min2(MaxHits, Max2(k, 0)))}
    \cup {[kind |-> e, hits |-> <<>>] : e \in LookupErrors}

\* what the cross-encoder does with n pairs
RerankReplies(n) ==
    {[asked |-> TRUE, fail_at |-> n + 1, scores |-> sc] : sc \in [1..n -> RerankScores]}
    \cup {[asked |-> TRUE, fail_at |-> 0, scores |-> [i \in 1..n |-> 0]]}
    \cup {[asked |-> TRUE, fail_at |-> j,
            scores |-> [i \in 1..n |-> IF i < j THEN sc[i] ELSE 0]] :
             j \in 2..n, sc \in [1..n -> RerankScores]}

\* search() is called and runs up to `await vector_store.search_similar(...)`
SearchCall ==
    /\ spc = "idle"
    /\ top_k' \in TopKs
    /\ query' \in SearchQueries
    /\ query_terms' = Len(NormalizeQuery(query'))
    /\ query_terms' \in TermCounts
    /\ keyword_documents' \in SeqsUpTo(Docs(query_terms'), MaxDocs)
    /\ index_reply' = [kind |-> "none", hits |-> <<>>]
    /\ rerank_reply' = [asked |-> FALSE, fail_at |-> 0, scores |-> <<>>]
    /\ faults' = [keyword |-> FALSE, combine |-> FALSE]
    /\ semantic_results' = <<>>
    /\ keyword_results' = <<>>
    /\ fused' = <<>>
    /\ combined_results' = <<>>
    /\ returned' = <<>>
    /\ outcome' = "none"
    /\ trail' = <<>>
    /\ spc' = "awaiting_index"
    /\ UNCHANGED reranker
    /\ UNCHANGED <<calls, heap>>
    /\ UNCHANGED chunkVars
    /\ UNCHANGED embedVars

\* the index answers and search() runs to its end: nothing after the lookup
\* suspends the coroutine
SearchResume ==
    /\ spc = "awaiting_index"
    /\ \E reply \in IndexReplies(2 * top_k), f \in [keyword : BOOLEAN, combine : BOOLEAN] :
          LET dry == HybridSearchRun(reranker, query_terms, keyword_documents, top_k,
                                     reply, f, [asked |-> FALSE, fail_at |-> 0,
                                                scores |-> <<>>])
          IN  \E rr \in (IF dry.reranked THEN RerankReplies(Len(dry.fused))
                         ELSE {[asked |-> FALSE, fail_at |-> 0, scores |-> <<>>]}) :
                LET run == HybridSearchRun(reranker, query_terms, keyword_documents,
                                           top_k, reply, f, rr)
                IN  /\ index_reply' = reply
                    /\ faults' = f
                    /\ rerank_reply' = rr
                    /\ semantic_results' = run.semantic
                    /\ keyword_results' = run.keyword
                    /\ fused' = run.fused
                    /\ combined_results' = run.combined
                    /\ returned' = run.returned
                    /\ outcome' = run.outcome
                    /\ trail' = run.stages
    /\ spc' = "done"
    /\ UNCHANGED <<reranker, top_k, query, query_terms, keyword_documents>>
    /\ UNCHANGED <<calls, heap>>
    /\ UNCHANGED chunkVars
    /\ UNCHANGED embedVars

\* the caller is done with the returned list; the instance is ready for the
\* next call and keeps only its reranker
SearchDone ==
    /\ spc = "done"
    /\ top_k' = 0
    /\ query' = <<>>
    /\ query_terms' = 0
    /\ keyword_documents' = <<>>
    /\ index_reply' = [kind |-> "none", hits |-> <<>>]
    /\ rerank_reply' = [asked |-> FALSE, fail_at |-> 0, scores |-> <<>>]
    /\ faults' = [keyword |-> FALSE, combine |-> FALSE]
    /\ semantic_results' = <<>>
    /\ keyword_results' = <<>>
    /\ fused' = <<>>
    /\ combined_results' = <<>>
    /\ returned' = <<>>
    /\ outcome' = "none"
    /\ trail' = <<>>
    /\ spc' = "idle"
    /\ UNCHANGED reranker
    /\ UNCHANGED <<calls, heap>>
    /\ UNCHANGED chunkVars
    /\ UNCHANGED embedVars

NextSearch ==
    \/ SearchCall
    \/ SearchResume
    \/ SearchDone

SpecSearch == InitSearch /\ [][NextSearch]_vars

----------------------------------------------------------------------------
(* search() called with any integer top_k *)

\* values of top_k that ask for nothing
NonPositiveTopKs == {0, -1}

\* documents in which every term of the query occurs once
OnceDocs(n) == {d \in Docs(n) : \A t \in 1..n : d.counts[t] = 1}

\* search() is called with a top_k of either sign, on lists long enough for
\* a slice with a negative bound to keep something
SearchCallAnyTopK ==
    /\ spc = "idle"
    /\ top_k' \in TopKs \cup NonPositiveTopKs
    /\ query' \in SearchQueries
    /\ query_terms' = Len(NormalizeQuery(query'))
    /\ query_terms' \in TermCounts
    /\ keyword_documents' \in SeqsUpTo(OnceDocs(query_terms'), MaxDocs + 2)
    /\ index_reply' = [kind |-> "none", hits |-> <<>>]
    /\ rerank_reply' = [asked |-> FALSE, fail_at |-> 0, scores |-> <<>>]
    /\ faults' = [keyword |-> FALSE, combine |-> FALSE]
    /\ semantic_results' = <<>>
    /\ keyword_results' = <<>>
    /\ fused' = <<>>
    /\ combined_results' = <<>>
    /\ returned' = <<>>
    /\ outcome' = "none"
    /\ trail' = <<>>
    /\ spc' = "awaiting_index"
    /\ UNCHANGED reranker
    /\ UNCHANGED <<calls, heap>>
    /\ UNCHANGED chunkVars
    /\ UNCHANGED embedVars

NextTopK ==
    \/ SearchCallAnyTopK
    \/ SearchResume
    \/ SearchDone

SpecTopK == InitSearch /\ [][NextTopK]_vars

----------------------------------------------------------------------------
(* KeywordSearch.search called on its own *)

\* KeywordSearch() is constructed; no call is in progress
InitKeyword ==
    /\ SearchIdle
    /\ ChunkIdle
    /\ EmbedIdle

\* one call of KeywordSearch.search: it has no await that suspends it.
\* faults.keyword: a document whose content is not a string makes the loop
\* raise, and the handler returns []
KeywordCall ==
    /\ spc = "idle"
    /\ top_k' \in TopKs
    /\ query' \in KeywordQueries
    /\ query_terms' = Len(NormalizeQuery(query'))
    /\ keyword_documents' \in SeqsUpTo(TextDocs, MaxDocs)
    /\ \E fails \in BOOLEAN :
          /\ faults' = [keyword |-> fails, combine |-> FALSE]
          /\ keyword_results' = KeywordSearchText(query', keyword_documents', top_k',
                                                 fails)
    /\ outcome' = "returned"
    /\ spc' = "done"
    /\ UNCHANGED <<reranker, index_reply, rerank_reply, semantic_results, fused,
                   combined_results, returned, trail>>
    /\ UNCHANGED <<calls, heap>>
    /\ UNCHANGED chunkVars
    /\ UNCHANGED embedVars

\* the caller is done with the list
KeywordReturn ==
    /\ spc = "done"
    /\ top_k' = 0
    /\ query' = <<>>
    /\ query_terms' = 0
    /\ keyword_documents' = <<>>
    /\ faults' = [keyword |-> FALSE, combine |-> FALSE]
    /\ keyword_results' = <<>>
    /\ outcome' = "none"
    /\ spc' = "idle"
    /\ UNCHANGED <<reranker, index_reply, rerank_reply, semantic_results, fused,
                   combined_results, returned, trail>>
    /\ UNCHANGED <<calls, heap>>
    /\ UNCHANGED chunkVars
    /\ UNCHANGED embedVars

NextKeyword ==
    \/ KeywordCall
    \/ KeywordReturn

SpecKeyword == InitKeyword /\ [][NextKeyword]_vars

----------------------------------------------------------------------------
(* Two search() calls on one HybridSearch, with the SearchResult objects   *)
(* kept by identity: a list is a sequence of references into the heap and  *)
(* `+=` and `result.score = ...` write to the object referred to.          *)

\* arguments and answers of the two calls
ConcDocs == {<<>>, <<[id |-> 1, document_id |-> 1, counts |-> <<1>>]>>}

ConcReplies ==
    { [kind |-> "hits", hits |-> <<>>],
      [kind |-> "hits", hits |-> <<[id |-> 1, document_id |-> 1, similarity |-> 9]>>],
      [kind |-> "hits", hits |-> <<[id |-> 1, document_id |-> 2, similarity |-> 9],
                                   [id |-> 1, document_id |-> 1, similarity |-> 9]>>],
      [kind |-> "runtime_error", hits |-> <<>>] }

\* an object pool that hands out the same objects to every call
AllocBaseReused(h) == 0

\* SearchResult(...) creates a new object: the references handed out start
\* after the objects that exist
AllocBase(h) == Len(h)

\* the heap with the objects objs stored at the references base+1, base+2, ...
Store(h, base, objs) ==
    [i \in 1..Max2(Len(h), base + Len(objs)) |->
        IF base < i /\ i <= base + Len(objs) THEN objs[i - base] ELSE h[i]]

\* the two loops of _combine_results on references: `combined[key] = result`
\* keeps the reference, `combined[key].score += result.score` writes to the
\* object kept first
RECURSIVE CombineRefs(_, _, _)
CombineRefs(h, combined, refs) ==
    IF refs = <<>> THEN [heap |-> h, combined |-> combined]
    ELSE LET r == Head(refs)
             same == {j \in 1..Len(combined) : KeyOf(h[combined[j]]) = KeyOf(h[r])}
         IN  IF same = {}
             THEN CombineRefs(h, Append(combined, r), Tail(refs))
             ELSE LET kept == combined[CHOOSE j \in same : TRUE]
                  IN  CombineRefs([h EXCEPT ![kept].score = @ + h[r].score],
                                  combined, Tail(refs))

\* the write-back loop of _rerank_results on references
RerankRefs(h, refs, reply) ==
    [i \in 1..Len(h) |->
        LET written == {m \in 1..Len(refs) :
                          /\ refs[m] = i
                          /\ m < reply.fail_at \/ reply.fail_at > Len(refs)}
        IN  IF written = {} THEN h[i]
            ELSE [h[i] EXCEPT !.score = reply.scores[CHOOSE m \in written : TRUE]]]

\* combined_results.sort(key=score, reverse=True) on references
SortRefs(h, refs) ==
    LET sorted == SortDesc([m \in 1..Len(refs) |->
                               [ref |-> refs[m], score |-> h[refs[m]].score]])
    IN  [m \in 1..Len(refs) |-> sorted[m].ref]

\* HybridSearch.search from the answer of the index to its return, on the heap
SearchOnHeap(h, has_reranker, n_terms, docs, k, reply, rr) ==
    LET sem == SemanticSearch(reply).results
        kw == KeywordSearch(n_terms, docs, 2 * k, FALSE)
        base == AllocBase(h)
        created == [i \in 1..(Len(sem) + Len(kw)) |-> base + i]
        c == CombineRefs(Store(h, base, sem \o kw), <<>>, created)
        reranked == RerankRuns(has_reranker, c.combined)
        h2 == IF reranked THEN RerankRefs(c.heap, c.combined, rr) ELSE c.heap
    IN  [heap |-> h2,
         objects |-> {created[i] : i \in 1..Len(created)},
         fused |-> c.combined,
         reranked |-> reranked,
         returned |-> Truncate(SortRefs(h2, c.combined), k)]

\* HybridSearch.__init__, with two callers about to use the instance
InitConcurrent ==
    /\ reranker \in BOOLEAN
    /\ calls = [c \in CallIds |-> IdleCall]
    /\ heap = <<>>
    /\ top_k = 0
    /\ query = <<>>
    /\ query_terms = 0
    /\ keyword_documents = <<>>
    /\ index_reply = [kind |-> "none", hits |-> <<>>]
    /\ rerank_reply = [asked |-> FALSE, fail_at |-> 0, scores |-> <<>>]
    /\ faults = [keyword |-> FALSE, combine |-> FALSE]
    /\ semantic_results = <<>>
    /\ keyword_results = <<>>
    /\ fused = <<>>
    /\ combined_results = <<>>
    /\ returned = <<>>
    /\ outcome = "none"
    /\ trail = <<>>
    /\ spc = "idle"
    /\ ChunkIdle
    /\ EmbedIdle

\* caller c enters search() and is suspended at
\* `await vector_store.search_similar(...)`; reranker_seen: the reranker
\* handle the instance had when the call was entered
ConcurrentCall(c) ==
    /\ calls[c].pc = "idle"
    /\ \E k \in TopKs, docs \in ConcDocs :
          calls' = [calls EXCEPT ![c] = [IdleCall EXCEPT !.pc = "awaiting_index",
                                                         !.reranker_seen = reranker,
                                                         !.top_k = k,
                                                         !.query_terms = 1,
                                                         !.keyword_documents = docs]]
    /\ UNCHANGED heap
    /\ UNCHANGED <<reranker, top_k, query, query_terms, keyword_documents, index_reply,
                   rerank_reply, faults, semantic_results, fused, keyword_results,
                   combined_results, returned, outcome, trail, spc>>
    /\ UNCHANGED chunkVars
    /\ UNCHANGED embedVars

\* the index answers caller c, whose search() then runs to its return;
\* overlapped: the other caller was suspended in search() meanwhile
ConcurrentResume(c) ==
    /\ calls[c].pc = "awaiting_index"
    /\ \E reply \in ConcReplies :
          LET me == calls[c]
              dry == SearchOnHeap(heap, reranker, me.query_terms, me.keyword_documents,
                                  me.top_k, reply,
                                  [asked |-> FALSE, fail_at |-> 0, scores |-> <<>>])
          IN  \E rr \in (IF dry.reranked THEN RerankReplies(Len(dry.fused))
                         ELSE {[asked |-> FALSE, fail_at |-> 0, scores |-> <<>>]}) :
                LET run == SearchOnHeap(heap, reranker, me.query_terms,
                                        me.keyword_documents, me.top_k, reply, rr)
                IN  /\ heap' = run.heap
                    /\ calls' = [calls EXCEPT ![c].pc = "done",
                                              ![c].index_reply = reply,
                                              ![c].rerank_reply = rr,
                                              ![c].overlapped =
                                                 \E o \in CallIds \ {c} :
                                                    calls[o].pc = "awaiting_index",
                                              ![c].objects = run.objects,
                                              ![c].returned = run.returned]
    /\ UNCHANGED <<reranker, top_k, query, query_terms, keyword_documents, index_reply,
                   rerank_reply, faults, semantic_results, fused, keyword_results,
                   combined_results, returned, outcome, trail, spc>>
    /\ UNCHANGED chunkVars
    /\ UNCHANGED embedVars

NextConcurrent ==
    \/ \E c \in CallIds : ConcurrentCall(c)
    \/ \E c \in CallIds : ConcurrentResume(c)

SpecConcurrent == InitConcurrent /\ [][NextConcurrent]_vars

----------------------------------------------------------------------------
(* embeddings.py: the similarity of two texts *)

\* number of components of an embedding vector in the model
VectorDim == 2

\* embedding vectors the encoder gives, the zero vector among them
Vectors == [1..VectorDim -> {-1, 0, 1}]

\* texts given to get_similarity: empty, blank, and three that are not blank,
\* two of which are the same once stripped
SimTexts == { <<>>, <<" ">>, <<"a">>, <<" ", "a">>, <<".">> }

\* [t.strip() for t in texts if t.strip()]
ValidTexts(texts) == StripAll(texts)

\* what self.model.encode does with the texts: it raises, or it gives one
\* vector per text, the same vector for the same text
EncodeReplies(texts) ==
    {[raised |-> TRUE, vectors |-> <<>>]}
    \cup {[raised |-> FALSE, vectors |-> vs] :
            vs \in {v \in [1..Len(texts) -> Vectors] :
                      \A i, j \in 1..Len(texts) : texts[i] = texts[j] => v[i] = v[j]}}

\* EmbeddingsGenerator.generate_embeddings_batch: the list, or the error of
\* encode raised again
GenerateEmbeddingsBatch(texts, reply) ==
    IF ValidTexts(texts) = <<>> THEN [raised |-> FALSE, embeddings |-> <<>>]
    ELSE IF reply.raised THEN [raised |-> TRUE, embeddings |-> <<>>]
    ELSE [raised |-> FALSE, embeddings |-> reply.vectors]

\* np.dot(u, v) over the first n components
RECURSIVE DotUpTo(_, _, _)
DotUpTo(u, v, n) == IF n = 0 THEN 0 ELSE u[n] * v[n] + DotUpTo(u, v, n - 1)

Dot(u, v) == DotUpTo(u, v, Len(u))

\* np.linalg.norm(v) squared
NormSq(v) == Dot(v, v)

\* the float 0.0 / 0.0 of numpy: nan, with a warning and no exception
NaN == [nan |-> TRUE, sign |-> 0, sq_num |-> 0, sq_den |-> 1]

\* np.dot(emb1, emb2) / (np.linalg.norm(emb1) * np.linalg.norm(emb2))
Cosine(emb1, emb2) ==
    LET dot == Dot(emb1, emb2)
        norms_sq == NormSq(emb1) * NormSq(emb2)
    IN  IF norms_sq = 0 THEN NaN
        ELSE IF dot = 0 THEN Zero
        ELSE [nan |-> FALSE, sign |-> IF dot > 0 THEN 1 ELSE -1,
              sq_num |-> dot * dot, sq_den |-> norms_sq]

\* EmbeddingsGenerator.get_similarity
GetSimilarity(t1, t2, reply) ==
    LET batch == GenerateEmbeddingsBatch(<<t1, t2>>, reply)
    IN  [embeddings |-> batch.embeddings,
         similarity |-> IF batch.raised THEN Zero
                        ELSE IF Len(batch.embeddings) < 2 THEN Zero
                        ELSE Cosine(batch.embeddings[1], batch.embeddings[2])]

\* EmbeddingsGenerator() is constructed; no call is in progress
InitSimilarity ==
    /\ EmbedIdle
    /\ SearchIdle
    /\ ChunkIdle

\* one call of get_similarity, from its entry to its return: nothing in it
\* suspends
SimilarityCall ==
    /\ epc = "idle"
    /\ text1' \in SimTexts
    /\ text2' \in SimTexts
    /\ \E reply \in EncodeReplies(ValidTexts(<<text1', text2'>>)) :
          LET run == GetSimilarity(text1', text2', reply)
          IN  /\ embeddings' = run.embeddings
              /\ similarity' = run.similarity
    /\ epc' = "done"
    /\ UNCHANGED chunkVars
    /\ UNCHANGED searchVars

\* the caller is done with the value
SimilarityReturn ==
    /\ epc = "done"
    /\ text1' = <<>>
    /\ text2' = <<>>
    /\ embeddings' = <<>>
    /\ similarity' = Zero
    /\ epc' = "idle"
    /\ UNCHANGED chunkVars
    /\ UNCHANGED searchVars

NextSimilarity ==
    \/ SimilarityCall
    \/ SimilarityReturn

SpecSimilarity == InitSimilarity /\ [][NextSimilarity]_vars

----------------------------------------------------------------------------
(* Properties of the search *)

KeySet(rs) == {KeyOf(rs[i]) : i \in 1..Len(rs)}

DistinctKeys(rs) == \A i, j \in 1..Len(rs) : i # j => KeyOf(rs[i]) # KeyOf(rs[j])

\* the score of the first entry of rs with this key
ScoreOfKey(rs, key) == rs[CHOOSE i \in 1..Len(rs) : KeyOf(rs[i]) = key].score

NonIncreasing(rs) == \A i \in 1..(Len(rs) - 1) : rs[i].score >= rs[i + 1].score

Elements(rs) == {rs[i] : i \in 1..Len(rs)}

\* the call has ended and fusion ran
Fusioned == spc = "done" /\ ~faults.combine

\* documents of keyword_documents the query matches
MatchingDocs ==
    {i \in 1..Len(keyword_documents) : CalculateScore(keyword_documents[i].counts) > 0}

\* the keyword path found something / the semantic path found something
KeywordPathWorks == query_terms > 0 /\ ~faults.keyword /\ MatchingDocs # {}
SemanticPathEmpty == index_reply.kind # "hits" \/ index_reply.hits = <<>>
SemanticPathWorks == index_reply.kind = "hits" /\ index_reply.hits # <<>>
KeywordPathEmpty == query_terms = 0 \/ faults.keyword \/ MatchingDocs = {}

\* C1: when the semantic list and the keyword list each have distinct keys,
\* every key present in both has exactly one fused entry, whose score is the
\* sum of the semantic and the keyword weighted scores, and fusing with the
\* keyword list inserted first gives the same score for that key.
C1_FusionSumsSharedKeys ==
    (Fusioned /\ DistinctKeys(semantic_results) /\ DistinctKeys(keyword_results))
    => \A key \in KeySet(semantic_results) \cap KeySet(keyword_results) :
          /\ Cardinality({i \in 1..Len(fused) : KeyOf(fused[i]) = key}) = 1
          /\ ScoreOfKey(fused, key) = ScoreOfKey(semantic_results, key)
                                      + ScoreOfKey(keyword_results, key)
          /\ ScoreOfKey(CombineResults(keyword_results, semantic_results), key)
             = ScoreOfKey(fused, key)

\* a key found by both retrievers next to a key found by one only
C1_Witness ==
    /\ Fusioned
    /\ DistinctKeys(semantic_results) /\ DistinctKeys(keyword_results)
    /\ KeySet(semantic_results) \cap KeySet(keyword_results) # {}
    /\ KeySet(semantic_results) # KeySet(keyword_results)

\* C2: no two results of the list search returns have the same
\* (chunk_id, document_id), whatever the index and the documents repeat and
\* whether or not reranking ran.
C2_NoDuplicateKeys == spc = "done" => DistinctKeys(returned)

\* the index and the documents both repeat a key, reranking ran, two results
C2_Witness ==
    /\ spc = "done"
    /\ ~DistinctKeys(semantic_results)
    /\ ~DistinctKeys(keyword_results)
    /\ rerank_reply.asked
    /\ Len(returned) = 2

\* the candidates the sort sees: the fused list with the scores reranking left
Candidates == IF rerank_reply.asked THEN RerankResults(fused, rerank_reply) ELSE fused

\* C3: for top_k >= 1 search returns min(top_k, number of fused candidates)
\* results, with non-increasing scores, and they are the highest-scored
\* candidates.
C3_TopKSortedDescending ==
    (spc = "done" /\ top_k >= 1)
    => /\ Len(returned) = Min2(top_k, Len(fused))
       /\ NonIncreasing(returned)
       /\ Elements(returned) \subseteq Elements(Candidates)
       /\ \A c \in Elements(Candidates) \ Elements(returned) :
             \A r \in Elements(returned) : r.score >= c.score

\* more candidates than top_k, and fusion left them in ascending order
C3_Witness ==
    /\ spc = "done"
    /\ Len(fused) > top_k
    /\ ~rerank_reply.asked
    /\ fused[1].score < fused[2].score

\* C4: search ends by returning a list whichever stages fail, and the list is
\* empty when both retrieval paths fail.
C4_NeverRaises ==
    spc = "done"
    => /\ outcome = "returned"
       /\ (index_reply.kind \in LookupErrors /\ faults.keyword) => returned = <<>>

\* the lookup and the keyword scorer both fail in one call
C4_Witness ==
    /\ spc = "done"
    /\ index_reply.kind \in LookupErrors
    /\ faults.keyword
    /\ MatchingDocs # {}

\* C5 as stated: with nothing from the semantic path and at least one matching
\* document, every result is a keyword result with a non-zero score and there
\* is one result per matching document up to top_k.
C5_OnePerMatchingDocument ==
    (Fusioned /\ SemanticPathEmpty /\ KeywordPathWorks)
    => /\ \A i \in 1..Len(returned) :
             returned[i].search_type = "keyword" /\ returned[i].score # 0
       /\ Len(returned) = Min2(top_k, Cardinality(MatchingDocs))

\* C5 amended: when one path gives nothing and the other finds something, the
\* returned list is not empty, holds only results of the path that worked,
\* is sorted descending and has min(top_k, number of distinct keys that path
\* returned) entries; keyword scores are positive unless reranking ran.
C5_OtherPathSurvives ==
    /\ (Fusioned /\ SemanticPathEmpty /\ KeywordPathWorks)
       => /\ returned # <<>>
          /\ \A i \in 1..Len(returned) :
                /\ returned[i].search_type = "keyword"
                /\ ~rerank_reply.asked => returned[i].score > 0
          /\ Len(returned) = Min2(top_k, Cardinality(KeySet(keyword_results)))
          /\ NonIncreasing(returned)
    /\ (Fusioned /\ SemanticPathWorks /\ KeywordPathEmpty)
       => /\ returned # <<>>
          /\ \A i \in 1..Len(returned) : returned[i].search_type = "semantic"
          /\ Len(returned) = Min2(top_k, Cardinality(KeySet(semantic_results)))
          /\ NonIncreasing(returned)

\* the lookup fails and the two matching documents share one key
C5_Witness ==
    /\ Fusioned
    /\ index_reply.kind \in LookupErrors
    /\ KeywordPathWorks
    /\ Cardinality(MatchingDocs) > Cardinality(KeySet(keyword_results))
    /\ Len(returned) = 1

\* C6: a resource-exhaustion or configuration error of the lookup leaves
\* search as an exception; other lookup failures give an empty contribution.
C6_FatalLookupErrorsPropagate ==
    spc = "done"
    => /\ index_reply.kind \in {"memory_error", "config_error"} => outcome = "raised"
       /\ index_reply.kind = "runtime_error" => outcome = "returned"

----------------------------------------------------------------------------
(* Properties of the chunking strategies *)

StartChar(c) == c.metadata.start_char
EndChar(c) == c.metadata.end_char

\* 0 <= overlap < chunk_size
ValidFixed == 0 <= overlap /\ overlap < chunk_size

\* C7: fixed-size chunking with overlap >= chunk_size is rejected for every
\* non-empty text: chunk() creates no chunk and does not return a list.
C7_OverlapNotBelowSizeRejected ==
    (strategy = "fixed" /\ overlap >= chunk_size /\ text # <<>>)
    => chunks = <<>> /\ cpc # "done"

\* C8: with 0 <= overlap < chunk_size every iteration moves the window
\* forward: each chunk starts after the previous one, and the next window
\* starts after the last chunk.
C8_StartStrictlyIncreases ==
    (strategy = "fixed" /\ ValidFixed)
    => /\ \A i \in 1..(Len(chunks) - 1) : StartChar(chunks[i + 1]) > StartChar(chunks[i])
       /\ chunks # <<>> => start > StartChar(chunks[Len(chunks)])

\* C9: for a valid configuration the spans [start_char, end_char) of the
\* returned chunks cover the text: the first starts at 0, each next one starts
\* overlap characters before the end of the previous one, the last one reaches
\* the end of the text, and every position lies in some span.
C9_SpansCoverText ==
    (cpc = "done" /\ RunsFixed(strategy) /\ ValidFixed)
    => /\ text # <<>> => /\ chunks # <<>>
                         /\ StartChar(chunks[1]) = 0
                         /\ EndChar(chunks[Len(chunks)]) >= Len(text)
       /\ \A i \in 1..(Len(chunks) - 1) :
             /\ StartChar(chunks[i + 1]) = EndChar(chunks[i]) - overlap
             /\ StartChar(chunks[i + 1]) <= EndChar(chunks[i])
       /\ \A pos \in 0..(Len(text) - 1) :
             \E i \in 1..Len(chunks) :
                StartChar(chunks[i]) <= pos /\ pos < EndChar(chunks[i])

\* a returned list whose first window was cut short at a period, with overlap
C9_Witness ==
    /\ cpc = "done"
    /\ strategy = "fixed"
    /\ ValidFixed
    /\ overlap > 0
    /\ Len(chunks) >= 2
    /\ EndChar(chunks[1]) - StartChar(chunks[1]) < chunk_size
    /\ EndChar(chunks[1]) < Len(text)

\* C10: the chunk_index values of the chunks of every strategy are
\* 0, 1, ..., n-1 in list order.
C10_ChunkIndexContiguous ==
    \A i \in 1..Len(chunks) : chunks[i].chunk_index = i - 1

\* a sentence based run that returned several chunks from a text with blanks
C10_Witness ==
    /\ cpc = "done"
    /\ strategy = "sentence"
    /\ Len(chunks) >= 2
    /\ \E i \in 1..Len(text) : IsSpace(text[i])

\* C11: the content of every chunk of every strategy is non-empty after
\* trimming, whatever the text (a window of blanks included).
C11_ContentNeverBlank ==
    \A i \in 1..Len(chunks) : Strip(chunks[i].content) # <<>>

\* C12: an instance whose reranker failed to load stays without one for its
\* lifetime, and every search call it completes returns the fused candidates
\* sorted descending by fused score and cut to top_k: the reranker is never
\* asked and no fused score is rewritten.
C12_NoRerankerKeepsFusedRanking ==
    [][~reranker =>
         /\ ~reranker'
         /\ spc' = "done" =>
               /\ ~rerank_reply'.asked
               /\ \A i \in 1..Len(trail') : trail'[i].stage # "rerank"
               /\ returned' = Truncate(SortDesc(fused'), top_k')
               /\ \A i \in 1..Len(returned') :
                     \E j \in 1..Len(fused') : returned'[i] = fused'[j]]_vars

\* a finished call on an instance without reranker whose fused list was not
\* in descending order and was cut by top_k
C12_Witness ==
    /\ spc = "done"
    /\ ~reranker
    /\ Len(fused) >= 2
    /\ fused[1].score < fused[2].score
    /\ Len(returned) < Len(fused)
    /\ returned # <<>>

\* the reranker was asked and failed: in predict, or while writing a score back
RerankFailed ==
    /\ rerank_reply.asked
    /\ rerank_reply.fail_at <= Len(fused)

\* C13: when reranking fails, _rerank_results returns its input unchanged:
\* the same results in the same order, every score the fused one, also when
\* the failure comes after some scores were written back.
C13_FailedRerankReturnsInput ==
    (spc = "done" /\ RerankFailed) => RerankResults(fused, rerank_reply) = fused

\* position of a stage in the order the pipeline prescribes
StageRank(stage) ==
    CASE stage = "semantic" -> 1
      [] stage = "keyword" -> 2
      [] stage = "combine" -> 3
      [] stage = "rerank" -> 4
      [] stage = "sort" -> 5
      [] stage = "truncate" -> 6

StagesOf(tr) == {tr[i].stage : i \in 1..Len(tr)}

----------------------------------------------------------------------------
(* Properties of KeywordSearch.search *)

\* c / (1 + 0.1 c) in units of 1 / KwDen: the x with x * (1 + c / 10) = c
SaturatingScore ==
    [c \in Counts |-> CHOOSE x \in 0..(10 * KwDen) : x * (10 + c) = 10 * c * KwDen]

RECURSIVE SumOf(_, _)
SumOf(f, n) == IF n = 0 THEN 0 ELSE f[n] + SumOf(f, n - 1)

\* the accumulated score of a document for the terms of the query
AccumulatedScore(doc) ==
    LET terms == NormalizeQuery(query)
    IN  SumOf([t \in 1..Len(terms) |->
                  SaturatingScore[CountFrom(LowerAll(doc.content), terms[t], 1)]],
              Len(terms))

\* the result a matching document must give: weight 0.3 on the accumulated score
ResultOf(doc) ==
    SearchResult(doc.id, doc.document_id, WeightKeyword * 10 * AccumulatedScore(doc),
                 "keyword")

\* positions of the documents whose accumulated score is positive
PositiveDocs ==
    {i \in 1..Len(keyword_documents) : AccumulatedScore(keyword_documents[i]) > 0}

\* C16: for a query with at least one term, KeywordSearch.search returns
\* min(top_k, number of documents with positive accumulated score) results in
\* descending order; each comes from a different such document and carries
\* weight times the sum over the terms of c / (1 + 0.1 c); no document left
\* out scores higher than a returned one; zero-score documents never appear.
C16_KeywordScoresAndFilter ==
    (spc = "done" /\ query_terms >= 1 /\ ~faults.keyword)
    => /\ Len(keyword_results) = Min2(top_k, Cardinality(PositiveDocs))
       /\ NonIncreasing(keyword_results)
       /\ \E f \in [1..Len(keyword_results) -> PositiveDocs] :
             /\ \A i, j \in 1..Len(keyword_results) : i # j => f[i] # f[j]
             /\ \A i \in 1..Len(keyword_results) :
                   keyword_results[i] = ResultOf(keyword_documents[f[i]])
             /\ \A d \in PositiveDocs \ {f[i] : i \in 1..Len(keyword_results)} :
                   \A i \in 1..Len(keyword_results) :
                      keyword_results[i].score >= ResultOf(keyword_documents[d]).score

\* a query of two terms, two matching documents of which the second, with two
\* occurrences of a term, scores higher, and top_k = 1
C16_Witness ==
    /\ spc = "done"
    /\ ~faults.keyword
    /\ query_terms = 2
    /\ top_k = 1
    /\ Len(keyword_documents) = 2
    /\ PositiveDocs = {1, 2}
    /\ AccumulatedScore(keyword_documents[1]) < AccumulatedScore(keyword_documents[2])
    /\ \E t \in 1..2 :
          CountFrom(LowerAll(keyword_documents[2].content), NormalizeQuery(query)[t], 1) = 2
    /\ keyword_results = <<ResultOf(keyword_documents[2])>>

----------------------------------------------------------------------------
(* Properties of the query normalization *)

\* the words of q: the maximal runs of letters, as pairs of positions
WordRuns(q) ==
    {r \in (1..Len(q)) \X (1..Len(q)) :
        /\ r[1] <= r[2]
        /\ \A k \in r[1]..r[2] : IsWordChar(q[k])
        /\ r[1] = 1 \/ ~IsWordChar(q[r[1] - 1])
        /\ r[2] = Len(q) \/ ~IsWordChar(q[r[2] + 1])}

\* every word of q is at most two letters long or, in lower case, a stopword
NoTermLeft(q) ==
    \A r \in WordRuns(q) :
        \/ r[2] - r[1] + 1 <= 2
        \/ LowerAll(SubSeq(q, r[1], r[2])) \in Stopwords

\* C17: when normalization leaves no term of the query, the keyword search
\* returns an empty list and raises nothing, whatever the documents, and the
\* hybrid search still consults the index and returns the semantic results:
\* one result per key the index answered, all of type "semantic", the
\* top_k best of them.
C17_NoTermsKeywordEmptySemanticRuns ==
    (spc = "done" /\ NoTermLeft(query))
    => /\ query_terms = 0
       /\ keyword_results = <<>>
       /\ outcome = "returned"
       /\ index_reply.kind # "none"
       /\ trail[1] = [stage |-> "semantic", k |-> 2 * top_k]
       /\ index_reply.kind = "hits"
          => /\ Len(semantic_results) = Len(index_reply.hits)
             /\ \A i \in 1..Len(index_reply.hits) :
                   KeyOf(semantic_results[i]) =
                      <<index_reply.hits[i].id, index_reply.hits[i].document_id>>
       /\ ~faults.combine
          => /\ KeySet(fused) = KeySet(semantic_results)
             /\ Len(returned) = Min2(top_k, Cardinality(KeySet(semantic_results)))
             /\ \A i \in 1..Len(returned) :
                   /\ returned[i].search_type = "semantic"
                   /\ KeyOf(returned[i]) \in KeySet(semantic_results)

\* a query made of a capitalised stopword with punctuation and a short word,
\* documents to search in, and an index that answers
C17_Witness ==
    /\ spc = "done"
    /\ query = <<"Q", "u", "e", ",", " ", "d", "e">>
    /\ keyword_documents # <<>>
    /\ ~faults.keyword
    /\ Len(index_reply.hits) = 2
    /\ returned # <<>>

----------------------------------------------------------------------------
(* Properties of the configuration checks of chunking.py *)

WrittenBy(class) ==
    CASE class = "FixedSizeChunking" -> {"start_char", "end_char", "chunk_size"}
      [] class = "HybridChunking" -> {"start_char", "end_char", "chunk_size"}
      [] class = "SentenceChunking" -> {"sentence_start", "sentence_end", "num_sentences"}
      [] class = "SemanticChunking" -> {"type"}

\* C19: ChunkingFactory.create raises the unknown-strategy error for every
\* name that is not one of fixed, sentence, semantic, hybrid, and no strategy
\* is constructed or run; for each of the four names the instance is of the
\* matching class, and its chunks carry the metadata that class writes.
C19_FactoryKnowsFourNames ==
    cpc # "create" =>
    /\ strategy \notin {"fixed", "sentence", "semantic", "hybrid"}
       => /\ cpc = "raised_unknown"
          /\ ClassOf(strategy) = "none"
          /\ chunks = <<>> /\ start = 0 /\ chunk_index = 0
    /\ strategy \in {"fixed", "sentence", "semantic", "hybrid"}
       => /\ cpc # "raised_unknown"
          /\ strategy = "fixed" => ClassOf(strategy) = "FixedSizeChunking"
          /\ strategy = "sentence" => ClassOf(strategy) = "SentenceChunking"
          /\ strategy = "semantic" => ClassOf(strategy) = "SemanticChunking"
          /\ strategy = "hybrid" => ClassOf(strategy) = "HybridChunking"
          /\ \A i \in 1..Len(chunks) :
                /\ WrittenBy(ClassOf(strategy)) \subseteq DOMAIN chunks[i].metadata
                /\ DOMAIN chunks[i].metadata =
                      (DOMAIN metadata) \cup WrittenBy(ClassOf(strategy))

\* the factory was given the name of a strategy with a capital letter
C19_Witness ==
    /\ strategy = "Fixed"
    /\ cpc = "raised_unknown"
    /\ text # <<>>

----------------------------------------------------------------------------
(* Properties of concurrent search() calls *)

\* the results a list of references refers to, as they are now
Deref(refs) == [i \in 1..Len(refs) |-> heap[refs[i]]]

\* what the call of caller c returns when it is the only call on the instance
Alone(c) ==
    HybridSearchRun(reranker, calls[c].query_terms, calls[c].keyword_documents,
                    calls[c].top_k, calls[c].index_reply,
                    [keyword |-> FALSE, combine |-> FALSE],
                    calls[c].rerank_reply).returned

\* C15: two search calls on one instance that interleave at the index
\* lookup share no mutable state: at every moment each finished call holds
\* the list it returns when run alone, made of objects it created itself, no
\* SearchResult object belongs to both calls, and the reranker handle of the
\* instance is the one each call found when it was entered.
C15_ConcurrentCallsIsolated ==
    /\ \A c \in CallIds :
          /\ calls[c].pc # "idle" => calls[c].reranker_seen = reranker
          /\ calls[c].pc = "done"
             => /\ Deref(calls[c].returned) = Alone(c)
                /\ \A i \in 1..Len(calls[c].returned) :
                      calls[c].returned[i] \in calls[c].objects
    /\ \A c, d \in CallIds : c # d => calls[c].objects \cap calls[d].objects = {}

\* both calls are finished; the first resumed while the second was suspended
\* at the lookup, summed a keyword score into a semantic result in place, and
\* the second returned results too
C15_Witness ==
    /\ calls[1].pc = "done" /\ calls[2].pc = "done"
    /\ calls[1].overlapped
    /\ Cardinality(calls[1].objects) > Len(calls[1].returned)
    /\ calls[1].keyword_documents # <<>>
    /\ Len(calls[1].index_reply.hits) = 2
    /\ calls[1].returned # <<>>
    /\ calls[2].returned # <<>>
    /\ calls[2].top_k = 2

----------------------------------------------------------------------------
(* Reranking overwrites the scores *)

\* the cross-encoder scored every pair and every score was written back
RerankSucceeded ==
    /\ spc = "done"
    /\ rerank_reply.asked
    /\ rerank_reply.fail_at > Len(fused)

\* the fused list with the i-th score of the model in place of the i-th
\* fused score
Rescored ==
    [i \in 1..Len(fused) |-> [fused[i] EXCEPT !.score = rerank_reply.scores[i]]]

\* C21: when the reranker is there and scoring succeeds, the i-th result of
\* the fused list carries exactly the i-th score of the model (its fused
\* score is replaced, not increased), and reranking adds, removes and moves
\* no result: what search() then sorts is the fused list, in its order, with
\* the model's scores.
C21_RerankOverwritesScores ==
    RerankSucceeded =>
        /\ Len(combined_results) = Len(fused)
        /\ combined_results = SortDesc(Rescored)
        /\ \A i \in 1..Len(fused) :
              ScoreOfKey(combined_results, KeyOf(fused[i])) = rerank_reply.scores[i]

\* two fused results, both with a positive fused score, get the scores 0 and
\* 1 of the model, and the second overtakes the first
C21_Witness ==
    /\ RerankSucceeded
    /\ Len(fused) = 2
    /\ \A i \in 1..2 : fused[i].score > 0
    /\ rerank_reply.scores = <<0, ScoreUnit>>
    /\ KeyOf(combined_results[1]) = KeyOf(fused[2])
    /\ combined_results[2].score = 0

----------------------------------------------------------------------------
(* Fusion of a key that one retriever alone found *)

\* the keys of rs in the order of their first appearance
RECURSIVE FirstAppearance(_, _)
FirstAppearance(rs, seen) ==
    IF rs = <<>> THEN <<>>
    ELSE IF KeyOf(Head(rs)) \in seen
         THEN FirstAppearance(Tail(rs), seen)
         ELSE <<KeyOf(Head(rs))>>
              \o FirstAppearance(Tail(rs), seen \cup {KeyOf(Head(rs))})

\* C22: a key found by one retriever only has, after fusion, the score of a
\* single result of that retriever, also when the retriever's list holds the
\* key more than once; and the fused list is in insertion order: the keys of
\* the semantic list in first-appearance order, then the keyword-only keys.
C22_SingleRetrieverKeepsOneScore ==
    Fusioned =>
        /\ \A key \in KeySet(semantic_results) \ KeySet(keyword_results) :
              \E i \in 1..Len(semantic_results) :
                  /\ KeyOf(semantic_results[i]) = key
                  /\ ScoreOfKey(fused, key) = semantic_results[i].score
        /\ \A key \in KeySet(keyword_results) \ KeySet(semantic_results) :
              \E i \in 1..Len(keyword_results) :
                  /\ KeyOf(keyword_results[i]) = key
                  /\ ScoreOfKey(fused, key) = keyword_results[i].score
        /\ [i \in 1..Len(fused) |-> KeyOf(fused[i])]
           = FirstAppearance(semantic_results \o keyword_results, {})

----------------------------------------------------------------------------
(* Ties of the keyword ranking *)

\* the place of the i-th document among the matching ones, acc being the
\* accumulated scores of the documents: after every document that scores
\* higher and every earlier document that scores the same
RankOf(acc, i) ==
    1 + Cardinality({j \in 1..Len(acc) :
            /\ acc[j] > 0
            /\ \/ acc[j] > acc[i]
               \/ acc[j] = acc[i] /\ j < i})

\* C23: KeywordSearch.search returns the matching documents by descending
\* score with ties in input order: the result at place p is the document
\* whose rank is p, where of two documents with equal score the earlier one
\* of the documents argument ranks first; the cut to top_k keeps the places
\* 1..top_k, hence the earlier document of a tie.
C23_KeywordTiesKeepInputOrder ==
    (spc = "done" /\ query_terms >= 1 /\ ~faults.keyword)
    => LET acc == [i \in 1..Len(keyword_documents) |->
                      AccumulatedScore(keyword_documents[i])]
           matching == {i \in 1..Len(acc) : acc[i] > 0}
       IN  /\ Len(keyword_results) = Min2(top_k, Cardinality(matching))
           /\ \A i \in matching :
                 RankOf(acc, i) <= Len(keyword_results)
                 => keyword_results[RankOf(acc, i)]
                    = SearchResult(keyword_documents[i].id,
                                   keyword_documents[i].document_id,
                                   WeightKeyword * 10 * acc[i], "keyword")

\* two documents with different ids and the same positive score, top_k = 1:
\* the first document is the one returned
C23_Witness ==
    /\ spc = "done"
    /\ ~faults.keyword
    /\ top_k = 1
    /\ PositiveDocs = {1, 2}
    /\ AccumulatedScore(keyword_documents[1]) = AccumulatedScore(keyword_documents[2])
    /\ KeyOf(ResultOf(keyword_documents[1])) # KeyOf(ResultOf(keyword_documents[2]))
    /\ keyword_results = <<ResultOf(keyword_documents[1])>>

----------------------------------------------------------------------------
(* Where a fixed-size window is cut *)

\* the window of chunk c before it is cut: text[start_char : start_char + chunk_size]
RawWindow(c) == PySlice(text, StartChar(c), StartChar(c) + chunk_size)

\* the index in the window of its last period, -1 when it has none
LastPeriod(c) ==
    LET at == {i \in 1..Len(RawWindow(c)) : RawWindow(c)[i] = "."}
    IN  IF at = {} THEN -1 ELSE (CHOOSE i \in at : \A j \in at : j <= i) - 1

\* C24: a window of FixedSizeChunking.chunk that does not reach the end of
\* the text ends just after its last period exactly when that period's index
\* in the window is at least 80% of chunk_size, the boundary included;
\* otherwise it ends at start + chunk_size.
C24_CutAtEightyPercentInclusive ==
    RunsFixed(strategy) =>
        \A i \in 1..Len(chunks) :
            LET c == chunks[i]
            IN  StartChar(c) + chunk_size < Len(text) =>
                    EndChar(c) = IF LastPeriod(c) * 10 >= chunk_size * 8
                                 THEN StartChar(c) + LastPeriod(c) + 1
                                 ELSE StartChar(c) + chunk_size

----------------------------------------------------------------------------
(* The windows of the sentence strategy *)

\* SentenceChunking.chunk returned for an advance step of at least 1
SentenceDone ==
    /\ cpc = "done"
    /\ RunsSentence(strategy)
    /\ sentences_per_chunk - overlap_sentences >= 1

\* the sentence positions (from 0) a chunk's metadata names
SentenceRange(c) == c.metadata.sentence_start..(c.metadata.sentence_end - 1)

\* the chunks are the windows of sentences_per_chunk sentences taken every
\* s = sentences_per_chunk - overlap_sentences sentences
SentenceWindows ==
    LET sents == Sentences(text)
        n == Len(sents)
        s == sentences_per_chunk - overlap_sentences
    IN  /\ \A k \in 0..(Len(chunks) - 1) :
              LET c == chunks[k + 1]
                  last == Min2(k * s + sentences_per_chunk, n)
              IN  /\ k * s < n
                  /\ c.content = Join(SubSeq(sents, k * s + 1, last))
                  /\ c.metadata.sentence_start = k * s
                  /\ c.metadata.sentence_end = last
                  /\ c.metadata.num_sentences = last - k * s
        /\ Len(chunks) * s >= n
        /\ \A j \in 0..(n - 1) : \E i \in 1..Len(chunks) : j \in SentenceRange(chunks[i])
        /\ \A i \in 1..(Len(chunks) - 1) :
              (/\ chunks[i].metadata.num_sentences = sentences_per_chunk
               /\ chunks[i + 1].metadata.num_sentences = sentences_per_chunk)
              => Cardinality(SentenceRange(chunks[i]) \cap SentenceRange(chunks[i + 1]))
                 = overlap_sentences

\* the statement for every advance step s >= 1, a negative overlap_sentences
\* included
C25_WindowsForAnyStep == SentenceDone => SentenceWindows

\* C25: for SentenceChunking with 0 <= overlap_sentences and advance step
\* s = sentences_per_chunk - overlap_sentences >= 1 and a text of n
\* sentences, the k-th chunk is sentences k*s up to
\* min(k*s + sentences_per_chunk, n) - 1 joined by single spaces, its metadata
\* records sentence_start, sentence_end and num_sentences of that range,
\* every sentence is in some chunk, and two consecutive full windows share
\* exactly overlap_sentences sentences.
C25_SentenceWindows ==
    (SentenceDone /\ overlap_sentences >= 0) => SentenceWindows

\* three sentences in windows of two with one repeated: two full windows
\* sharing a sentence, then a window cut at the end of the text
C25_Witness ==
    /\ SentenceDone
    /\ sentences_per_chunk = 2
    /\ overlap_sentences = 1
    /\ Len(Sentences(text)) = 3
    /\ Len(chunks) = 3
    /\ chunks[1].metadata.num_sentences = 2
    /\ chunks[2].metadata.num_sentences = 2
    /\ chunks[3].metadata.num_sentences = 1
    /\ "sentence_start" \in DOMAIN metadata

\* C29: every chunk SentenceChunking.chunk returns holds a sentence that the
\* chunk before it does not hold; no chunk, the last one included, is made
\* only of the sentences the previous window repeats.
C29_EveryChunkAddsASentence ==
    (cpc = "done" /\ RunsSentence(strategy))
    => \A i \in 2..Len(chunks) :
          SentenceRange(chunks[i]) \ SentenceRange(chunks[i - 1]) # {}

----------------------------------------------------------------------------
(* The greedy grouping of the semantic strategy *)

\* SemanticChunking.chunk returned
SemanticDone == cpc = "done" /\ RunsSemantic(strategy)

\* the sentences of the j-th chunk.  A sentence holds no terminal mark
\* followed by whitespace, and every sentence before the last of a chunk ends
\* with a terminal mark, so splitting the content gives the sentences back.
SentencesOf(j) == Sentences(chunks[j].content)

RECURSIVE Flatten(_)
Flatten(groups) == IF groups = <<>> THEN <<>> ELSE Head(groups) \o Flatten(Tail(groups))

\* C26: SemanticChunking.chunk groups the sentences greedily and in order:
\* the chunks' sentences, chunk after chunk, are the sentences of the text,
\* each once; a chunk is closed only when the next sentence with its joining
\* space would make its text longer than max_chunk_size; hence a chunk of two
\* or more sentences is at most max_chunk_size long, and only a chunk of one
\* sentence can be longer.
C26_GreedySemanticPartition ==
    SemanticDone =>
        /\ Flatten([j \in 1..Len(chunks) |-> SentencesOf(j)]) = Sentences(text)
        /\ \A j \in 1..Len(chunks) :
              /\ SentencesOf(j) # <<>>
              /\ chunks[j].content = Join(SentencesOf(j))
              /\ j < Len(chunks) =>
                    Len(chunks[j].content) + 1 + Len(SentencesOf(j + 1)[1])
                    > max_chunk_size
              /\ Len(SentencesOf(j)) >= 2 => Len(chunks[j].content) <= max_chunk_size
              /\ Len(chunks[j].content) > max_chunk_size => Len(SentencesOf(j)) = 1

\* a chunk of two sentences that fills max_chunk_size is closed because the
\* third sentence does not fit, and the third sentence is in the next chunk
C26_Witness ==
    /\ SemanticDone
    /\ Len(Sentences(text)) = 3
    /\ Len(chunks) = 2
    /\ Len(SentencesOf(1)) = 2
    /\ Len(chunks[1].content) = max_chunk_size
    /\ SentencesOf(2) = <<Sentences(text)[3]>>

----------------------------------------------------------------------------
(* What chunk() does to the caller's metadata *)

\* the i-th chunk carries, for the keys its strategy owns, the values the
\* strategy computes
OwnValuesStored(i) ==
    LET md == chunks[i].metadata
    IN  /\ RunsFixed(strategy) =>
              /\ md.start_char = IF i = 1 THEN 0 ELSE EndChar(chunks[i - 1]) - overlap
              /\ md.end_char > md.start_char
              /\ md.chunk_size = Len(PySlice(text, md.start_char, md.end_char))
        /\ RunsSentence(strategy) =>
              /\ md.sentence_start = (i - 1) * (sentences_per_chunk - overlap_sentences)
              /\ md.num_sentences = md.sentence_end - md.sentence_start
        /\ RunsSemantic(strategy) => md.type = "semantic"

\* every chunk's metadata is the caller's mapping plus the strategy's keys,
\* the caller's value kept for every key the strategy does not own
MetadataMerged ==
    \A i \in 1..Len(chunks) :
        LET md == chunks[i].metadata
            own == WrittenBy(ClassOf(strategy))
        IN  /\ DOMAIN md = (DOMAIN metadata) \cup own
            /\ \A k \in (DOMAIN metadata) \ own : md[k] = metadata[k]
            /\ OwnValuesStored(i)

----------------------------------------------------------------------------
(* top_k of zero or less *)

\* C30: for every top_k <= 0 HybridSearch.search returns the empty list, and
\* for no integer top_k does it return more than max(top_k, 0) results.
C30_NonPositiveTopKReturnsNothing ==
    spc = "done" =>
        /\ top_k <= 0 => returned = <<>>
        /\ Len(returned) <= Max2(top_k, 0)

----------------------------------------------------------------------------
(* The similarity of texts whose embedding has no length *)

\* one of the two texts is empty or whitespace only
SomeTextBlank == Strip(text1) = <<>> \/ Strip(text2) = <<>>

\* both texts were embedded and one of the two vectors is the zero vector
SomeNormZero ==
    /\ Len(embeddings) = 2
    /\ \E i \in 1..2 : \A n \in 1..VectorDim : embeddings[i][n] = 0

\* C28: get_similarity returns 0.0, never an error or not-a-number, whenever
\* one of the two embedding vectors has zero norm or an input text is blank,
\* and returns 1.0 when both inputs have the same non-zero embedding.
C28_ZeroNormGivesZero ==
    epc = "done" =>
        /\ (SomeTextBlank \/ SomeNormZero) => similarity = Zero
        /\ ~similarity.nan
        /\ (/\ Len(embeddings) = 2
            /\ embeddings[1] = embeddings[2]
            /\ ~SomeNormZero)
           => /\ similarity.sign = 1
              /\ similarity.sq_num = similarity.sq_den

====
